---------------------------- MODULE Spec2Model ----------------------------
(***************************************************************************)
(* Model of the reflection helpers of                                      *)
(* Sample-App/app/Services/Utilities.ts: getValue, setValue, getFunction.  *)
(*                                                                         *)
(* JavaScript values are tagged records, objects live in a heap (a         *)
(* sequence of objects addressed by their index) so that object identity,  *)
(* aliasing and in-place mutation are what they are in the program.        *)
(* Strings are sequences of one-character strings, so that split,          *)
(* indexOf, lastIndexOf and substr are computed and not assumed.           *)
(***************************************************************************)
EXTENDS Integers, Sequences, FiniteSets, TLC

VARIABLES heap, pre, call, strict

vars == <<heap, pre, call, strict>>

---------------------------------------------------------------------------
(* JavaScript values *)

Undef == [t |-> "undef", v |-> 0, s |-> <<>>]

Null == [t |-> "null", v |-> 0, s |-> <<>>]

Num(n) == [t |-> "num", v |-> n, s |-> <<>>]

Bool(b) == [t |-> "bool", v |-> IF b THEN 1 ELSE 0, s |-> <<>>]

Str(chars) == [t |-> "str", v |-> 0, s |-> chars]

Ref(id) == [t |-> "ref", v |-> id, s |-> <<>>]

\* ToBoolean: what `if (x)` and `!x` test.
Truthy(x) ==
    CASE x.t = "ref" -> TRUE
      [] x.t = "num" -> x.v # 0
      [] x.t = "bool" -> x.v = 1
      [] x.t = "str" -> x.s # <<>>
      [] OTHER -> FALSE

\* `x == null`: true of null and of undefined only.
IsNullish(x) == x.t \in {"undef", "null"}

\* typeof x === "string"
IsString(x) == x.t = "str"

\* typeof x === "undefined"
IsUndefined(x) == x.t = "undef"

---------------------------------------------------------------------------
(* Objects and the heap *)

EmptyProps == [k \in {} |-> Undef]

\* An object: whether it is callable, and its own properties.
Obj(isFn, props) == [fn |-> isFn, props |-> props]

IsObject(x) == x.t = "ref"

IsCallable(h, x) == x.t = "ref" /\ h[x.v].fn

\* object[key] read.  A primitive has no own properties and none of the
\* keys of the model ("a", "b", "c" and dotted joins of them) names a
\* property of a built-in prototype, so the read yields undefined.
\* Reading a property of null or undefined throws; callers test
\* IsNullish first.
GetProp(h, x, key) ==
    IF x.t = "ref" /\ key \in DOMAIN h[x.v].props
    THEN h[x.v].props[key]
    ELSE Undef

\* Mutant: the store rebuilds the object with the one key.
PutPropAlone(h, id, key, val) ==
    [h EXCEPT ![id].props = [k \in {key} |-> val]]

\* object[key] = val on an object of the heap.
PutProp(h, id, key, val) ==
    [h EXCEPT ![id].props =
        [k \in (DOMAIN h[id].props) \cup {key} |->
            IF k = key THEN val ELSE h[id].props[k]]]

\* `{}`: a new empty object, appended to the heap.
NewObject(h) == Append(h, Obj(FALSE, EmptyProps))

---------------------------------------------------------------------------
(* String operations *)

Dot == "."

\* String.prototype.split(".")
RECURSIVE SplitFrom(_, _, _, _)
SplitFrom(chars, i, token, tokens) ==
    IF i > Len(chars) THEN Append(tokens, token)
    ELSE IF chars[i] = Dot
         THEN SplitFrom(chars, i + 1, <<>>, Append(tokens, token))
         ELSE SplitFrom(chars, i + 1, Append(token, chars[i]), tokens)

Split(chars) == SplitFrom(chars, 1, <<>>, <<>>)

\* propertyString.indexOf(".") (0-based, -1 when there is none)
IndexOfDot(chars) ==
    IF \E i \in 1..Len(chars) : chars[i] = Dot
    THEN (CHOOSE i \in 1..Len(chars) :
            chars[i] = Dot /\ \A j \in 1..(i - 1) : chars[j] # Dot) - 1
    ELSE -1

\* Mutant: the context string cut at the first dot instead of the last.
FirstIndexOfDot(chars) == IndexOfDot(chars)

\* propertyString.lastIndexOf(".")
LastIndexOfDot(chars) ==
    IF \E i \in 1..Len(chars) : chars[i] = Dot
    THEN (CHOOSE i \in 1..Len(chars) :
            chars[i] = Dot /\ \A j \in (i + 1)..Len(chars) : chars[j] # Dot) - 1
    ELSE -1

\* propertyString.substr(start, length) with start = 0
Substr0(chars, length) ==
    IF length <= 0 THEN <<>>
    ELSE SubSeq(chars, 1, IF length > Len(chars) THEN Len(chars) ELSE length)

---------------------------------------------------------------------------
(* Utilities.getValue *)

\* Mutant: the early exit tests `object === null`, which undefined passes.
RECURSIVE GetLoopStrictNull(_, _, _, _)
GetLoopStrictNull(h, object, properties, i) ==
    IF i > Len(properties) THEN [val |-> object, steps |-> i - 1]
    ELSE LET next == GetProp(h, object, properties[i]) IN
         IF next.t = "null" THEN [val |-> Null, steps |-> i]
         ELSE GetLoopStrictNull(h, next, properties, i + 1)

\* The descent loop of getValue: `steps` counts the tokens looked up.
RECURSIVE GetLoop(_, _, _, _)
GetLoop(h, object, properties, i) ==
    IF i > Len(properties) THEN [val |-> object, steps |-> i - 1]
    ELSE LET next == GetProp(h, object, properties[i]) IN
         IF IsNullish(next) THEN [val |-> Null, steps |-> i]
         ELSE GetLoop(h, next, properties, i + 1)

\* The test of the exact-key shortcut: `if (object[propertyString])`.
FastPathHit(h, object, propertyString) ==
    Truthy(GetProp(h, object, propertyString.s))

getValue(h, object, propertyString) ==
    IF ~Truthy(object) THEN [val |-> Null, steps |-> 0]
    ELSE IF ~Truthy(propertyString) THEN [val |-> Null, steps |-> 0]
    ELSE IF FastPathHit(h, object, propertyString)
         THEN [val |-> GetProp(h, object, propertyString.s), steps |-> 0]
    ELSE GetLoop(h, object, Split(propertyString.s), 1)

---------------------------------------------------------------------------
(* Utilities.setValue *)

\* `object[key] = val`.  On an object it stores.  On a primitive the
\* store is dropped in sloppy mode and throws a TypeError in strict mode;
\* which of the two the build produces is not fixed by the source.
AssignProp(h, object, key, val, strictMode) ==
    IF object.t = "ref" THEN [heap |-> PutProp(h, object.v, key, val), tag |-> "ok"]
    ELSE IF strictMode THEN [heap |-> h, tag |-> "TypeError"]
    ELSE [heap |-> h, tag |-> "ok"]

\* The test that decides between descending and instantiating:
\* `if (object[property])`.
HasNode(h, object, property) == Truthy(GetProp(h, object, property))

\* The instantiate branch: `object[property] = {}; object = object[property];`
\* yields the heap after the store and the object read back.
Instantiate(h, object, property, strictMode) ==
    LET h1 == NewObject(h)
        st == IF object.t = "ref"
              THEN AssignProp(h1, object, property, Ref(Len(h1)), strictMode)
              ELSE AssignProp(h, object, property, Undef, strictMode)
    IN [heap |-> st.heap, tag |-> st.tag,
        object |-> GetProp(st.heap, object, property)]

\* The loop of setValue.  Touching a property of null or undefined throws.
RECURSIVE SetLoop(_, _, _, _, _, _, _)
SetLoop(h, object, properties, i, value, instantiateObjects, strictMode) ==
    IF i > Len(properties) THEN [heap |-> h, tag |-> "ok"]
    ELSE IF IsNullish(object) THEN [heap |-> h, tag |-> "TypeError"]
    ELSE LET property == properties[i] IN
         IF Len(properties) = i
         THEN AssignProp(h, object, property, value, strictMode)
         ELSE IF HasNode(h, object, property)
              THEN SetLoop(h, GetProp(h, object, property), properties, i + 1,
                           value, instantiateObjects, strictMode)
         ELSE IF Truthy(instantiateObjects)
              THEN LET n == Instantiate(h, object, property, strictMode) IN
                   IF n.tag = "TypeError" THEN [heap |-> n.heap, tag |-> n.tag]
                   ELSE SetLoop(n.heap, n.object, properties, i + 1,
                                value, instantiateObjects, strictMode)
         ELSE [heap |-> h, tag |-> "ok"]

\* Mutant: an omitted flag defaults to false.
DefaultInstantiateOff(instantiateObjects) ==
    IF IsUndefined(instantiateObjects) THEN Bool(FALSE) ELSE instantiateObjects

\* Mutant: the flag is set to true whether or not it was given.
DefaultInstantiateAlways(instantiateObjects) == Bool(TRUE)

\* `if (typeof (instantiateObjects) === "undefined") instantiateObjects = true`
DefaultInstantiate(instantiateObjects) ==
    IF IsUndefined(instantiateObjects) THEN Bool(TRUE) ELSE instantiateObjects

setValue(h, object, propertyString, value, instantiateObjects, strictMode) ==
    IF ~Truthy(object) THEN [heap |-> h, tag |-> "ok"]
    ELSE IF ~Truthy(propertyString) THEN [heap |-> h, tag |-> "ok"]
    ELSE SetLoop(h, object, Split(propertyString.s), 1, value,
                 DefaultInstantiate(instantiateObjects), strictMode)

---------------------------------------------------------------------------
(* Utilities.getFunction *)

\* The global object `window`: the first object of every heap.
WindowId == 1

\* Mutant: inferContext is set to true whether or not it was given.
DefaultInferContextAlways(inferContext) == Bool(TRUE)

\* `if (inferContext == null) inferContext = true`
DefaultInferContext(inferContext) ==
    IF IsNullish(inferContext) THEN Bool(TRUE) ELSE inferContext

\* The scope and the property string the overloads resolve to.
ScopeOf(scopeOrPropertyString) ==
    IF IsString(scopeOrPropertyString) THEN Ref(WindowId) ELSE scopeOrPropertyString

\* Mutant: a second argument that is a string is kept as the path.
PathOfSecond(scopeOrPropertyString, propertyString) ==
    IF IsString(scopeOrPropertyString) /\ ~IsString(propertyString)
    THEN scopeOrPropertyString ELSE propertyString

PathOf(scopeOrPropertyString, propertyString) ==
    IF IsString(scopeOrPropertyString) THEN scopeOrPropertyString ELSE propertyString

\* The context object the function is bound to.
ContextOf(h, scope, propertyString) ==
    IF IndexOfDot(propertyString.s) > -1
    THEN getValue(h, scope,
             Str(Substr0(propertyString.s, LastIndexOfDot(propertyString.s)))).val
    ELSE scope

\* _.bind(fn, context): a wrapper that calls fn with context as `this`;
\* underscore throws a TypeError when fn is not a function.
Bind(h, fn, context) ==
    IF IsCallable(h, fn)
    THEN [tag |-> "bound", res |-> fn, recv |-> context]
    ELSE [tag |-> "TypeError", res |-> Undef, recv |-> Undef]

getFunction(h, scopeOrPropertyString, propertyString0, inferContext0) ==
    LET inferContext == DefaultInferContext(inferContext0)
        scope == ScopeOf(scopeOrPropertyString)
        propertyString == PathOf(scopeOrPropertyString, propertyString0)
        fn == getValue(h, scope, propertyString).val
    IN IF ~Truthy(fn) THEN [tag |-> "null", res |-> Null, recv |-> Undef]
       ELSE IF Truthy(inferContext)
            THEN Bind(h, fn, ContextOf(h, scope, propertyString))
       ELSE [tag |-> "raw", res |-> fn, recv |-> Undef]

---------------------------------------------------------------------------
(* Inputs: the object graphs and the arguments the calls are tried on *)

\* Longest property string tried, in tokens.
MaxTokens == 3

TokenSet == {<<"a">>, <<"b">>, <<"c">>}

RECURSIVE Join(_)
Join(tokens) ==
    IF Len(tokens) = 0 THEN <<>>
    ELSE IF Len(tokens) = 1 THEN tokens[1]
    ELSE tokens[1] \o <<Dot>> \o Join(Tail(tokens))

\* Property strings whose tokens are all non-empty.
WellFormedPaths ==
    {Join(ts) : ts \in UNION {[1..n -> TokenSet] : n \in 1..MaxTokens}}

\* Property strings with an empty token, and the empty string.
MalformedPaths ==
    {<<>>, <<Dot>>, <<Dot, "a">>, <<"a", Dot>>, <<"a", Dot, Dot, "b">>}

PathStrings == WellFormedPaths \cup MalformedPaths

PathArgs == {Str(p) : p \in PathStrings} \cup {Null, Undef}

KA == <<"a">>

KB == <<"b">>

KC == <<"c">>

KAB == <<"a", Dot, "b">>

KBA == <<"b", Dot, "a">>

KCA == <<"c", Dot, "a">>

\* The caller's object: the second object of every heap.
RootId == WindowId + 1

\* Object graphs: object 1 is window, object 2 the caller's object.
InitHeaps ==
    { \* empty objects
      << Obj(FALSE, EmptyProps), Obj(FALSE, EmptyProps) >>,
      \* scalars where a path descends: truthy, falsy, null
      << Obj(FALSE, KA :> Num(5)),
         Obj(FALSE, KA :> Num(5) @@ KB :> Num(0) @@ KC :> Null) >>,
      << Obj(FALSE, EmptyProps),
         Obj(FALSE, KA :> Str(<<>>) @@ KB :> Bool(FALSE) @@ KC :> Str(<<"a">>)) >>,
      \* a truthy literal key "a.b" beside a nested a.b
      << Obj(FALSE, EmptyProps),
         Obj(FALSE, KA :> Ref(3) @@ KAB :> Num(5)),
         Obj(FALSE, KB :> Num(7)) >>,
      \* a falsy literal key "a.b" beside a nested a.b
      << Obj(FALSE, EmptyProps),
         Obj(FALSE, KA :> Ref(3) @@ KAB :> Num(0)),
         Obj(FALSE, KB :> Num(7)) >>,
      \* literal dotted keys and nothing nested
      << Obj(FALSE, EmptyProps),
         Obj(FALSE, KAB :> Num(5) @@ KBA :> Num(0) @@ KCA :> Null) >>,
      \* { a: { b: { c: <function>, a: 5 } } }
      << Obj(FALSE, EmptyProps),
         Obj(FALSE, KA :> Ref(3)),
         Obj(FALSE, KB :> Ref(4)),
         Obj(FALSE, KC :> Ref(5) @@ KA :> Num(5)),
         Obj(TRUE, EmptyProps) >>,
      \* a function under the literal key "a.b" and another under a.b
      << Obj(FALSE, KA :> Ref(4)),
         Obj(FALSE, KAB :> Ref(4) @@ KA :> Ref(3)),
         Obj(FALSE, KB :> Ref(5)),
         Obj(TRUE, EmptyProps),
         Obj(TRUE, EmptyProps) >>,
      \* an object under the literal key "a.b" and a function at a.b.c
      << Obj(FALSE, EmptyProps),
         Obj(FALSE, KA :> Ref(3) @@ KAB :> Ref(6)),
         Obj(FALSE, KB :> Ref(4)),
         Obj(FALSE, KC :> Ref(5)),
         Obj(TRUE, EmptyProps),
         Obj(FALSE, EmptyProps) >>,
      \* a cycle: root.a is root
      << Obj(FALSE, EmptyProps),
         Obj(FALSE, KA :> Ref(2) @@ KB :> Ref(3)),
         Obj(FALSE, KA :> Ref(2)) >>,
      \* functions reachable from window; a shared object
      << Obj(FALSE, KA :> Ref(3) @@ KB :> Ref(4)),
         Obj(FALSE, KA :> Ref(3) @@ KB :> Ref(3)),
         Obj(FALSE, KB :> Ref(4) @@ KC :> Num(0)),
         Obj(TRUE, EmptyProps) >>,
      \* a function as an intermediate node
      << Obj(FALSE, EmptyProps),
         Obj(FALSE, KA :> Ref(3)),
         Obj(TRUE, KB :> Num(7)) >>,
      \* a key that is the empty string
      << Obj(FALSE, EmptyProps),
         Obj(FALSE, <<>> :> Ref(3)),
         Obj(FALSE, KA :> Ref(4)),
         Obj(TRUE, EmptyProps) >> }

\* What the caller passes as `object` / `scope`.
RootArgs == {Ref(RootId), Ref(WindowId), Null, Num(5)}

\* What the caller passes as `value`.
ValueArgs == {Undef, Null, Num(0), Num(1), Bool(FALSE), Ref(RootId)}

\* What the caller passes as `instantiateObjects` (Undef: omitted).
InstantiateArgs == {Undef, Bool(TRUE), Bool(FALSE)}

\* What the caller passes as `inferContext` (Undef: omitted).
InferArgs == {Undef, Null, Bool(TRUE), Bool(FALSE)}

\* Second arguments tried with the string-only overload, which ignores them.
IgnoredArgs == {Undef, Null, Str(KA), Str(KAB)}

\* The (first, second) argument pairs of getFunction.
FunctionArgs ==
    {<<a1, a2>> : a1 \in RootArgs, a2 \in PathArgs}
        \cup {<<Str(p), a2>> : p \in PathStrings, a2 \in IgnoredArgs}

---------------------------------------------------------------------------
(* The state machine: one call on one object graph *)

\* The record of the last call: its arguments a1..a4, how it ended (tag),
\* what it returned (res), the receiver it bound (recv), for getValue the
\* number of tokens it looked up (steps), and the number of calls made so
\* far on the object graph (n, counted in sequences of calls).
NoCall ==
    [op |-> "none", a1 |-> Undef, a2 |-> Undef, a3 |-> Undef, a4 |-> Undef,
     tag |-> "none", res |-> Undef, recv |-> Undef, steps |-> 0, n |-> 0]

Init ==
    /\ heap \in InitHeaps
    /\ pre = heap
    /\ call = NoCall
    /\ strict \in BOOLEAN

GetValueCall ==
    /\ call.op = "none"
    /\ \E object \in RootArgs, propertyString \in PathArgs :
         LET r == getValue(heap, object, propertyString) IN
         call' = [NoCall EXCEPT !.op = "getValue", !.a1 = object,
                                !.a2 = propertyString, !.tag = "returned",
                                !.res = r.val, !.steps = r.steps]
    /\ pre' = heap
    /\ UNCHANGED <<heap, strict>>

SetValueCall ==
    /\ call.op = "none"
    /\ \E object \in RootArgs, propertyString \in PathArgs,
          value \in ValueArgs, instantiateObjects \in InstantiateArgs :
         LET r == setValue(heap, object, propertyString, value,
                           instantiateObjects, strict) IN
         /\ heap' = r.heap
         /\ call' = [NoCall EXCEPT !.op = "setValue", !.a1 = object,
                                   !.a2 = propertyString, !.a3 = value,
                                   !.a4 = instantiateObjects, !.tag = r.tag]
    /\ pre' = heap
    /\ UNCHANGED strict

GetFunctionCall ==
    /\ call.op = "none"
    /\ \E args \in FunctionArgs, inferContext \in InferArgs :
         LET r == getFunction(heap, args[1], args[2], inferContext) IN
         call' = [NoCall EXCEPT !.op = "getFunction", !.a1 = args[1],
                                !.a2 = args[2], !.a3 = inferContext,
                                !.tag = r.tag, !.res = r.res, !.recv = r.recv]
    /\ pre' = heap
    /\ UNCHANGED <<heap, strict>>

\* The caller invokes what getFunction returned, with no explicit receiver:
\* a bound wrapper passes its context as `this`, a raw function gets none.
Invoke ==
    /\ call.op = "getFunction"
    /\ call.tag \in {"bound", "raw"}
    /\ IsCallable(heap, call.res)
    /\ call' = [call EXCEPT !.op = "invoke",
                            !.recv = IF call.tag = "bound" THEN call.recv ELSE Undef]
    /\ UNCHANGED <<heap, pre, strict>>

Next == GetValueCall \/ SetValueCall \/ GetFunctionCall \/ Invoke

Spec == Init /\ [][Next]_vars

---------------------------------------------------------------------------
(* Vocabulary of the claims *)

\* A property string whose tokens are all non-empty.
WellFormed(ps) ==
    /\ IsString(ps)
    /\ ps.s # <<>>
    /\ ps.s[1] # Dot
    /\ ps.s[Len(ps.s)] # Dot
    /\ \A i \in 1..(Len(ps.s) - 1) : ~(ps.s[i] = Dot /\ ps.s[i + 1] = Dot)

\* The value reached from x by reading the first n tokens one after the
\* other; undefined once a null or undefined value is met.
RECURSIVE Descend(_, _, _, _)
Descend(h, x, tokens, n) ==
    IF n = 0 THEN x
    ELSE LET p == Descend(h, x, tokens, n - 1) IN
         IF IsNullish(p) THEN Undef ELSE GetProp(h, p, tokens[n])

\* Some segment before the last resolves to null or undefined.
MissingIntermediate(h, x, tokens) ==
    \E i \in 1..(Len(tokens) - 1) : IsNullish(Descend(h, x, tokens, i))

\* The first such segment.
FirstMissing(h, x, tokens) ==
    CHOOSE i \in 1..(Len(tokens) - 1) :
        /\ IsNullish(Descend(h, x, tokens, i))
        /\ \A j \in 1..(i - 1) : ~IsNullish(Descend(h, x, tokens, j))

\* Equality of results, reading an absent (undefined) value as null.
SameValue(x, y) == x = y \/ (IsNullish(x) /\ IsNullish(y))

\* The instantiate flag in effect: true when omitted.
InstantiateOn(a) == IsUndefined(a) \/ Truthy(a)

CallTokens == Split(call.a2.s)

---------------------------------------------------------------------------
(* C1: round trip of setValue then getValue *)

\* C1 as stated: after setValue(root, p, v, instantiate) on a root mapping
\* with a well-formed p, where every intermediate segment exists or
\* instantiate is true, getValue(root, p) returns v.
C1_RoundTripAsStated ==
    (/\ call.op = "setValue"
     /\ IsObject(call.a1)
     /\ WellFormed(call.a2)
     /\ \/ InstantiateOn(call.a4)
        \/ ~MissingIntermediate(pre, call.a1, CallTokens))
    => SameValue(getValue(heap, call.a1, call.a2).val, call.a3)

\* Every intermediate segment holds an object, or holds a falsy value (or
\* nothing) while instantiate is on.
C1_ChainWritable ==
    \A i \in 1..(Len(CallTokens) - 1) :
        LET x == Descend(pre, call.a1, CallTokens, i) IN
        IsObject(x) \/ (~Truthy(x) /\ InstantiateOn(call.a4))

\* The object that receives the final store is not also an earlier node of
\* the chain (no cycle leads back to it along p).
C1_WrittenNotOnChain ==
    LET n == Len(CallTokens)
        last == Descend(pre, call.a1, CallTokens, n - 1) IN
    IsObject(last) => \A i \in 0..(n - 2) : Descend(pre, call.a1, CallTokens, i) # last

\* root holds no truthy value under the literal key p when p is dotted.
C1_NoLiteralKey ==
    Len(CallTokens) > 1 => ~Truthy(GetProp(pre, call.a1, call.a2.s))

C1_Pre ==
    /\ call.op = "setValue"
    /\ IsObject(call.a1)
    /\ WellFormed(call.a2)
    /\ C1_ChainWritable
    /\ C1_WrittenNotOnChain
    /\ C1_NoLiteralKey

\* C1 amended: the round trip holds (the call ends without error and
\* getValue(root, p) then returns v, null for an undefined v) when every
\* intermediate segment holds an object or is falsy with instantiate on,
\* the object written is not an earlier node of the chain, and root holds
\* no truthy value under the literal dotted key p.
C1_RoundTrip ==
    C1_Pre =>
        /\ call.tag = "ok"
        /\ SameValue(getValue(heap, call.a1, call.a2).val, call.a3)

\* A three-token path written through instantiated objects.
C1_Witness ==
    /\ C1_Pre
    /\ Len(CallTokens) = 3
    /\ call.a3 = Num(1)
    /\ Len(heap) = Len(pre) + 2
    /\ getValue(heap, call.a1, call.a2).val = Num(1)

---------------------------------------------------------------------------
(* C2: setValue with instantiate = false and a missing intermediate *)

\* C2: setValue(root, p, v, false) changes nothing in the object graph and
\* ends without error whenever an intermediate segment of p is missing.
C2_NoPartialWrite ==
    (/\ call.op = "setValue"
     /\ call.a4 = Bool(FALSE)
     /\ IsString(call.a2)
     /\ MissingIntermediate(pre, call.a1, CallTokens))
    => (heap = pre /\ call.tag = "ok")

\* The first segment exists, the second of three is missing.
C2_Witness ==
    /\ call.op = "setValue"
    /\ call.a4 = Bool(FALSE)
    /\ IsString(call.a2)
    /\ Len(CallTokens) = 3
    /\ IsObject(call.a1)
    /\ IsObject(Descend(pre, call.a1, CallTokens, 1))
    /\ IsNullish(Descend(pre, call.a1, CallTokens, 2))
    /\ ~IsNullish(call.a3)
    /\ heap = pre

---------------------------------------------------------------------------
(* C3: getValue returns null on null inputs and on a null intermediate *)

\* The third case of C3: the descent meets null before the final segment.
C3_NullBeforeFinal ==
    /\ Truthy(call.a1)
    /\ IsString(call.a2)
    /\ call.a2.s # <<>>
    /\ MissingIntermediate(heap, call.a1, CallTokens)

\* C3 as stated: getValue returns null when root is null, when p is null or
\* empty, or when a segment before the final one resolves to null, where
\* it stops without looking up a later token.
C3_NullAsStated ==
    call.op = "getValue" =>
        /\ (IsNullish(call.a1) \/ IsNullish(call.a2) \/ call.a2 = Str(<<>>))
              => (call.res = Null /\ call.steps = 0)
        /\ C3_NullBeforeFinal
              => (/\ call.res = Null
                  /\ call.steps = FirstMissing(heap, call.a1, CallTokens))

\* C3 amended: as stated, the third case holding provided root has no
\* truthy value under the literal key p.
C3_Null ==
    call.op = "getValue" =>
        /\ (IsNullish(call.a1) \/ IsNullish(call.a2) \/ call.a2 = Str(<<>>))
              => (call.res = Null /\ call.steps = 0)
        /\ (C3_NullBeforeFinal /\ ~Truthy(GetProp(heap, call.a1, call.a2.s)))
              => (/\ call.res = Null
                  /\ call.steps = FirstMissing(heap, call.a1, CallTokens))

\* A three-token descent that stops at its second token.
C3_Witness ==
    /\ call.op = "getValue"
    /\ C3_NullBeforeFinal
    /\ Len(CallTokens) = 3
    /\ FirstMissing(heap, call.a1, CallTokens) = 2
    /\ call.res = Null
    /\ call.steps = 2

---------------------------------------------------------------------------
(* C4: the exact-key shortcut of getValue *)

\* C4 as stated: whenever root has a key equal to the whole property
\* string, getValue returns the value stored under that key, whatever it
\* is, in precedence over the tokenized descent.
C4_ExactKeyAsStated ==
    (/\ call.op = "getValue"
     /\ IsObject(call.a1)
     /\ IsString(call.a2)
     /\ call.a2.s # <<>>
     /\ call.a2.s \in DOMAIN heap[call.a1.v].props)
    => SameValue(call.res, heap[call.a1.v].props[call.a2.s])

---------------------------------------------------------------------------
(* C5: the receiver getFunction infers *)

\* The scope and the property string of a getFunction call, as its
\* documentation gives them.
CallScope == IF IsString(call.a1) THEN Ref(WindowId) ELSE call.a1

CallPath == IF IsString(call.a1) THEN call.a1 ELSE call.a2

FnTokens == Split(CallPath.s)

HasDot(chars) == \E i \in 1..Len(chars) : chars[i] = Dot

\* The object reached by every token but the last; the scope itself for
\* a property string without a dot.
OwnerByDescent ==
    IF HasDot(CallPath.s)
    THEN Descend(heap, CallScope, FnTokens, Len(FnTokens) - 1)
    ELSE CallScope

\* The object the raw callable was read from.
ReadFrom ==
    IF Truthy(GetProp(heap, CallScope, CallPath.s)) THEN CallScope ELSE OwnerByDescent

\* The property string of the owner: the tokens before the last.
OwnerPath == Join(SubSeq(FnTokens, 1, Len(FnTokens) - 1))

\* C5 as stated: the wrapper getFunction returns with inferContext on
\* calls the raw callable with, as receiver, the object reached by every
\* token of the (well-formed) path but the last (the scope for a path
\* without a dot), which is the object the callable was read from.
C5_ReceiverAsStated ==
    (call.op = "invoke" /\ call.tag = "bound" /\ WellFormed(CallPath))
    => (call.recv = OwnerByDescent /\ call.recv = ReadFrom)

\* Neither the path nor the owner's path, when dotted, is a literal key of
\* the scope with a truthy value.
C5_NoLiteralKeys ==
    /\ HasDot(CallPath.s) => ~Truthy(GetProp(heap, CallScope, CallPath.s))
    /\ HasDot(OwnerPath) => ~Truthy(GetProp(heap, CallScope, OwnerPath))

\* C5 amended: as stated, provided the scope holds no truthy value under a
\* literal dotted key equal to the path or to the owner's path.
C5_Receiver ==
    (call.op = "invoke" /\ call.tag = "bound" /\ WellFormed(CallPath)
        /\ C5_NoLiteralKeys)
    => /\ call.recv = OwnerByDescent
       /\ call.recv = ReadFrom
       /\ IsObject(call.recv)
       /\ call.res = GetProp(heap, call.recv, FnTokens[Len(FnTokens)])
       /\ IsCallable(heap, call.res)

\* { a: { b: { c: fn } } } and "a.b.c": fn is called on the object a.b.
C5_Witness ==
    /\ call.op = "invoke"
    /\ call.tag = "bound"
    /\ WellFormed(CallPath)
    /\ C5_NoLiteralKeys
    /\ Len(FnTokens) = 3
    /\ call.recv = Descend(heap, CallScope, FnTokens, 2)
    /\ call.recv \notin {CallScope, Descend(heap, CallScope, FnTokens, 1)}

---------------------------------------------------------------------------
(* C6: no operation raises *)

IsScalar(x) == x.t \in {"num", "str", "bool"}

\* C6 as stated: no call ends in an error; a getValue whose descent meets
\* a scalar before the final token returns null.
C6_NoErrorAsStated ==
    /\ call.tag # "TypeError"
    /\ (/\ call.op = "getValue"
        /\ call.steps > 0
        /\ \E i \in 0..(Len(CallTokens) - 1) :
              IsScalar(Descend(heap, call.a1, CallTokens, i)))
       => call.res = Null

---------------------------------------------------------------------------
(* C7: getFunction without context inference *)

\* C7 as stated: getFunction(scope, path, false) returns null when
\* getValue(scope, path) is absent and otherwise exactly that value,
\* unbound.
C7_RawAsStated ==
    (call.op = "getFunction" /\ call.a3 = Bool(FALSE))
    => LET g == getValue(heap, call.a1, call.a2).val IN
       IF IsNullish(g)
       THEN call.tag = "null" /\ call.res = Null
       ELSE call.tag = "raw" /\ call.res = g /\ call.recv = Undef

\* C7 amended: for a scope that is not a string, getFunction(scope, path,
\* false) returns null when getValue(scope, path) is falsy (null, 0, "",
\* false) and otherwise exactly that value, unbound.
C7_Raw ==
    (call.op = "getFunction" /\ call.a3 = Bool(FALSE) /\ ~IsString(call.a1))
    => LET g == getValue(heap, call.a1, call.a2).val IN
       IF ~Truthy(g)
       THEN call.tag = "null" /\ call.res = Null
       ELSE call.tag = "raw" /\ call.res = g /\ call.recv = Undef

\* A function found two tokens down and returned as it is.
C7_Witness ==
    /\ call.op = "getFunction"
    /\ call.a3 = Bool(FALSE)
    /\ IsObject(call.a1)
    /\ Len(CallTokens) >= 2
    /\ call.tag = "raw"
    /\ IsCallable(heap, call.res)
    /\ call.res = getValue(heap, call.a1, call.a2).val

---------------------------------------------------------------------------
(* C8: the overloads of getFunction *)

\* C8: a string first argument is the path, looked up from window whatever
\* the second argument is; any other first argument is the lookup root and
\* the second argument the path; an omitted or null third argument turns
\* context inference on.
C8_Overloads ==
    call.op = "getFunction" =>
        LET scope == IF IsString(call.a1) THEN Ref(WindowId) ELSE call.a1
            path == IF IsString(call.a1) THEN call.a1 ELSE call.a2
            g == getValue(heap, scope, path).val
        IN /\ call.tag = "null" <=> ~Truthy(g)
           /\ call.tag \in {"raw", "bound"} => call.res = g
           /\ (IsNullish(call.a3) /\ Truthy(g)) => call.tag \in {"bound", "TypeError"}
           /\ (IsNullish(call.a3) /\ call.tag = "bound" /\ ~HasDot(path.s))
                 => call.recv = scope

\* The string-only overload given a different string as second argument:
\* the function is looked up from window under the first argument.
C8_Witness ==
    /\ call.op = "getFunction"
    /\ IsString(call.a1)
    /\ IsString(call.a2)
    /\ call.a2 # call.a1
    /\ IsNullish(call.a3)
    /\ call.tag = "bound"
    /\ call.res = GetProp(heap, Ref(WindowId), call.a1.s)
    /\ call.res # getValue(heap, Ref(WindowId), call.a2).val
    /\ call.recv = Ref(WindowId)

---------------------------------------------------------------------------
(* C9: setValue and the intermediate nodes that exist *)

\* C9 as stated: every intermediate token that already has a present value
\* (0, false and "" included) keeps that value; an object is created only
\* where none is present and instantiate is on; setValue({}, "a.b.c", 1,
\* true) yields { a: { b: { c: 1 } } }.
C9_KeepsNodesAsStated ==
    (/\ call.op = "setValue"
     /\ IsObject(call.a1)
     /\ WellFormed(call.a2)
     /\ C1_WrittenNotOnChain)
    => /\ \A i \in 1..(Len(CallTokens) - 1) :
            LET x == Descend(pre, call.a1, CallTokens, i) IN
            ~IsNullish(x) => Descend(heap, call.a1, CallTokens, i) = x
       /\ Len(heap) > Len(pre)
            => (InstantiateOn(call.a4) /\ MissingIntermediate(pre, call.a1, CallTokens))
       /\ (/\ pre[call.a1.v].props = EmptyProps
           /\ call.a2 = Str(<<"a", Dot, "b", Dot, "c">>)
           /\ call.a3 = Num(1)
           /\ call.a4 = Bool(TRUE))
            => /\ DOMAIN heap[call.a1.v].props = {KA}
               /\ LET a == GetProp(heap, call.a1, KA) IN
                  /\ IsObject(a) /\ DOMAIN heap[a.v].props = {KB}
                  /\ LET b == GetProp(heap, a, KB) IN
                     /\ IsObject(b) /\ DOMAIN heap[b.v].props = {KC}
                     /\ GetProp(heap, b, KC) = Num(1)

---------------------------------------------------------------------------
(* C10: reads and writes of a literal dotted key *)

\* C10 as stated: for a root with a literal key "x.y", setValue(root,
\* "x.y", v, true) leaves the value under the literal key unchanged and
\* writes v at root.x.y, while getValue(root, "x.y") reads the literal key.
C10_AsymmetryAsStated ==
    (/\ call.op = "setValue"
     /\ IsObject(call.a1)
     /\ WellFormed(call.a2)
     /\ Len(CallTokens) = 2
     /\ call.a2.s \in DOMAIN pre[call.a1.v].props
     /\ call.a4 = Bool(TRUE))
    => /\ GetProp(heap, call.a1, call.a2.s) = GetProp(pre, call.a1, call.a2.s)
       /\ GetProp(heap, GetProp(heap, call.a1, CallTokens[1]), CallTokens[2]) = call.a3
       /\ getValue(heap, call.a1, call.a2).val = GetProp(pre, call.a1, call.a2.s)

---------------------------------------------------------------------------
(* Sequences of calls on one object graph *)

\* Longest sequence of calls tried.
MaxCalls == 2

SeqHeaps == {h \in InitHeaps : Len(h) <= 3}

SeqPaths ==
    {Str(KA), Str(KAB), Str(KBA), Str(<<"a", Dot, "a">>),
     Str(<<"a", Dot, "b", Dot, "c">>)}

SeqValues == {Num(1), Null, Ref(RootId)}

SeqInstantiate == {Bool(TRUE), Bool(FALSE)}

SeqInit ==
    /\ heap \in SeqHeaps
    /\ pre = heap
    /\ call = NoCall
    /\ strict \in BOOLEAN

SeqGetValue ==
    /\ call.n < MaxCalls
    /\ \E propertyString \in SeqPaths :
         LET r == getValue(heap, Ref(RootId), propertyString) IN
         call' = [NoCall EXCEPT !.op = "getValue", !.a1 = Ref(RootId),
                                !.a2 = propertyString, !.tag = "returned",
                                !.res = r.val, !.steps = r.steps,
                                !.n = call.n + 1]
    /\ pre' = heap
    /\ UNCHANGED <<heap, strict>>

SeqSetValue ==
    /\ call.n < MaxCalls
    /\ \E propertyString \in SeqPaths, value \in SeqValues,
          instantiateObjects \in SeqInstantiate :
         LET r == setValue(heap, Ref(RootId), propertyString, value,
                           instantiateObjects, strict) IN
         /\ heap' = r.heap
         /\ call' = [NoCall EXCEPT !.op = "setValue", !.a1 = Ref(RootId),
                                   !.a2 = propertyString, !.a3 = value,
                                   !.a4 = instantiateObjects, !.tag = r.tag,
                                   !.n = call.n + 1]
    /\ pre' = heap
    /\ UNCHANGED strict

SeqGetFunction ==
    /\ call.n < MaxCalls
    /\ \E propertyString \in SeqPaths, inferContext \in {Undef, Bool(FALSE)} :
         LET r == getFunction(heap, Ref(RootId), propertyString, inferContext) IN
         call' = [NoCall EXCEPT !.op = "getFunction", !.a1 = Ref(RootId),
                                !.a2 = propertyString, !.a3 = inferContext,
                                !.tag = r.tag, !.res = r.res, !.recv = r.recv,
                                !.n = call.n + 1]
    /\ pre' = heap
    /\ UNCHANGED <<heap, strict>>

SeqNext == SeqGetValue \/ SeqSetValue \/ SeqGetFunction \/ Invoke

SeqSpec == SeqInit /\ [][SeqNext]_vars

---------------------------------------------------------------------------
(* C11: the frame of setValue, getValue and getFunction *)

\* The key k of object id holds in the heap what it held before the call.
KeyKept(id, k) ==
    (k \in DOMAIN pre[id].props <=> k \in DOMAIN heap[id].props)
    /\ (k \in DOMAIN pre[id].props => heap[id].props[k] = pre[id].props[k])

\* The key k of object id lies on the token chain of the call's path in
\* heap h: k is the i-th token and the object is reached by the first
\* i - 1 tokens.
OnChain(h, id, k) ==
    \E i \in 1..Len(CallTokens) :
        /\ k = CallTokens[i]
        /\ Descend(h, call.a1, CallTokens, i - 1) = Ref(id)

\* C11: in every sequence of calls, a setValue changes only keys on the
\* token chain of its path, deletes no key, leaves every other key of every
\* object as it was and creates at most one object per non-final token;
\* getValue and getFunction (and invoking its result) change nothing.
C11_Frame ==
    /\ Len(heap) >= Len(pre)
    /\ \A id \in 1..Len(pre) :
          /\ heap[id].fn = pre[id].fn
          /\ DOMAIN pre[id].props \subseteq DOMAIN heap[id].props
          /\ \A k \in DOMAIN heap[id].props :
                KeyKept(id, k) \/ (call.op = "setValue" /\ OnChain(pre, id, k))
    /\ call.op = "setValue" =>
          /\ Len(heap) - Len(pre) <= Len(CallTokens) - 1
          /\ \A id \in (Len(pre) + 1)..Len(heap) :
                /\ ~heap[id].fn
                /\ \A k \in DOMAIN heap[id].props : OnChain(heap, id, k)
    /\ call.op \in {"getValue", "getFunction", "invoke"} => heap = pre

\* A second setValue of a sequence that creates an object under an object
\* the first one created, beside keys it leaves alone.
C11_Witness ==
    /\ call.op = "setValue"
    /\ call.n = 2
    /\ Len(pre) > 2
    /\ Len(heap) = Len(pre) + 1
    /\ \E id \in 1..Len(pre) : \E k \in DOMAIN pre[id].props :
          pre[id].props[k] # heap[id].props[k]
    /\ \E k \in DOMAIN pre[RootId].props :
          ~OnChain(pre, RootId, k) /\ KeyKept(RootId, k)

===========================================================================
